---- MODULE Spec2Model ----
(***************************************************************************)
(* A model of phable_cli/phabricator.py: the PhabricatorClient, its        *)
(* construction from the environment, its request helper, the encoding of  *)
(* task edits, the first-match lookups, the memoized show_user and the     *)
(* milestone scan.                                                         *)
(*                                                                         *)
(* Python values are modelled as tagged records so that values of          *)
(* different Python types can be compared: [t |-> "none"] is None,         *)
(* [t |-> "item", v |-> m] a decoded mapping, [t |-> "list", v |-> s] a    *)
(* list.  Strings that the code inspects character by character (the URL   *)
(* and the token) are sequences of one-character strings.                  *)
(***************************************************************************)
EXTENDS Integers, Sequences, FiniteSets, TLC

VARIABLES
    env,        \* os.environ: PHABRICATOR_URL and PHABRICATOR_TOKEN
    ctor,       \* how __init__ ended: "pending", "constructed", "ValueError", "KeyError"
    base_url,   \* self.base_url
    token,      \* self.token
    timeout,    \* self.timeout
    cache,      \* the dictionary of functools.cache around show_user, per phid
    pc,         \* per thread: "idle", "waiting" (POST sent), "storing", "done"
    op,         \* per thread: the public operation it is in
    arg,        \* per thread: the argument of the operation
    req,        \* per thread: the request it posted, [path, data]
    ret,        \* per thread: how the operation ended (an Outcome)
    nreq,       \* per thread: HTTP requests issued by the current invocation
    missed,     \* per thread: the current show_user invocation missed the cache
    overlap,    \* observation, per thread: a show_user for the same phid was in flight
                \* while this show_user was (for a cache hit: when it was called)
    resp,       \* observation: the response most recently received from the remote
    hist        \* observation, per phid: the latest completed show_user call for it

vars == <<env, ctor, base_url, token, timeout, cache, pc, op, arg, req, ret,
          nreq, missed, overlap, resp, hist>>

(***************************************************************************)
(* Bounds of the model                                                     *)
(***************************************************************************)
MaxUrlLen == 3      \* longest PHABRICATOR_URL tried
MaxTokenLen == 2    \* longest PHABRICATOR_TOKEN tried

(***************************************************************************)
(* Python truthiness and the None value                                    *)
(***************************************************************************)
None == [t |-> "none"]

\* str.rstrip("/") of line 19: drop every trailing "/"
RECURSIVE rstrip(_)
rstrip(s) ==
    IF s # <<>> /\ s[Len(s)] = "/" THEN rstrip(SubSeq(s, 1, Len(s) - 1)) ELSE s

\* all strings over the alphabet A of length at most n
StringsUpTo(A, n) == UNION {[1..k -> A] : k \in 0..n}

(***************************************************************************)
(* Construction: PhabricatorClient.__init__                                *)
(***************************************************************************)
UrlChars == {"/", "h"}
TokenChars == {"k"}
Unset == [set |-> FALSE, val |-> <<>>]
EnvValue(s) == [set |-> TRUE, val |-> s]
UrlValues == {Unset} \cup {EnvValue(s) : s \in StringsUpTo(UrlChars, MaxUrlLen)}
TokenValues == {Unset} \cup {EnvValue(s) : s \in StringsUpTo(TokenChars, MaxTokenLen)}

DefaultTimeout == 5

\* the state of every variable that construction does not touch
NoThreads ==
    /\ cache = <<>>
    /\ pc = <<>>
    /\ op = <<>>
    /\ arg = <<>>
    /\ req = <<>>
    /\ ret = <<>>
    /\ nreq = <<>>
    /\ missed = <<>>
    /\ overlap = <<>>
    /\ resp = None
    /\ hist = <<>>

threadVars == <<cache, pc, op, arg, req, ret, nreq, missed, overlap, resp, hist>>

InitEnv ==
    /\ env \in [PHABRICATOR_URL : UrlValues, PHABRICATOR_TOKEN : TokenValues]
    /\ ctor = "pending"
    /\ base_url = <<>>
    /\ token = <<>>
    /\ timeout = 0
    /\ NoThreads

\* a constructor that keeps the URL as given
init_NoStrip ==
    /\ ctor = "pending"
    /\ IF ~env.PHABRICATOR_URL.set
         THEN /\ ctor' = "KeyError"
              /\ UNCHANGED <<base_url, token, timeout>>
         ELSE /\ base_url' = env.PHABRICATOR_URL.val
              /\ IF ~env.PHABRICATOR_TOKEN.set
                   THEN /\ ctor' = "KeyError"
                        /\ UNCHANGED <<token, timeout>>
                   ELSE /\ token' = env.PHABRICATOR_TOKEN.val
                        /\ timeout' = DefaultTimeout
                        /\ ctor' = IF base_url' = <<>> \/ token' = <<>>
                                     THEN "ValueError" ELSE "constructed"
    /\ UNCHANGED <<env, threadVars>>

\* lines 18-27.  os.environ[...] raises KeyError for a variable that is not set.
__init__ ==
    /\ ctor = "pending"
    /\ IF ~env.PHABRICATOR_URL.set
         THEN /\ ctor' = "KeyError"
              /\ UNCHANGED <<base_url, token, timeout>>
         ELSE /\ base_url' = rstrip(env.PHABRICATOR_URL.val)
              /\ IF ~env.PHABRICATOR_TOKEN.set
                   THEN /\ ctor' = "KeyError"
                        /\ UNCHANGED <<token, timeout>>
                   ELSE /\ token' = env.PHABRICATOR_TOKEN.val
                        /\ timeout' = DefaultTimeout
                        /\ ctor' = IF base_url' = <<>> \/ token' = <<>>
                                     THEN "ValueError" ELSE "constructed"
    /\ UNCHANGED <<env, threadVars>>

\* the process reads another environment: a fresh construction attempt
Reconfigure ==
    /\ ctor # "pending"
    /\ env' \in [PHABRICATOR_URL : UrlValues, PHABRICATOR_TOKEN : TokenValues]
    /\ ctor' = "pending"
    /\ base_url' = <<>>
    /\ token' = <<>>
    /\ timeout' = 0
    /\ UNCHANGED threadVars

NextInit == __init__ \/ Reconfigure

SpecInit == InitEnv /\ [][NextInit]_vars

UrlSet == env.PHABRICATOR_URL.set
TokenSet == env.PHABRICATOR_TOKEN.set
UrlText == env.PHABRICATOR_URL.val
TokenText == env.PHABRICATOR_TOKEN.val

\* C4 as stated: construction succeeds for every configuration whose URL and
\* token are both non-empty strings and fails with the configuration error
\* (ValueError) for every configuration whose URL or token is empty; after a
\* successful construction base_url and token are non-empty and base_url does
\* not end in "/".
C4_Original ==
    ctor # "pending" /\ UrlSet /\ TokenSet =>
        /\ (UrlText # <<>> /\ TokenText # <<>> => ctor = "constructed")
        /\ (UrlText = <<>> \/ TokenText = <<>> => ctor = "ValueError")
        /\ (ctor = "constructed" =>
               base_url # <<>> /\ token # <<>> /\ base_url[Len(base_url)] # "/")

\* C4 amended: construction succeeds exactly when the token is non-empty and
\* the URL is non-empty after its trailing slashes are stripped; it fails with
\* the configuration error when the token is empty or the URL is empty or made
\* of slashes only; after a successful construction base_url is the URL without
\* its trailing slashes, base_url and token are non-empty and base_url does not
\* end in "/".
C4_Construction ==
    ctor # "pending" /\ UrlSet /\ TokenSet =>
        /\ (ctor = "constructed" <=>
               TokenText # <<>> /\ \E i \in 1..Len(UrlText) : UrlText[i] # "/")
        /\ (ctor = "ValueError" <=>
               TokenText = <<>> \/ \A i \in 1..Len(UrlText) : UrlText[i] = "/")
        /\ (ctor = "constructed" =>
               /\ base_url # <<>> /\ token # <<>> /\ base_url[Len(base_url)] # "/"
               /\ token = TokenText
               /\ \E k \in 0..Len(UrlText) :
                     /\ base_url = SubSeq(UrlText, 1, k)
                     /\ \A i \in (k + 1)..Len(UrlText) : UrlText[i] = "/")

\* a URL that ends in a slash but is not made of slashes only was accepted
C4_Witness ==
    /\ ctor = "constructed"
    /\ UrlText # base_url
    /\ Len(base_url) >= 1

(***************************************************************************)
(* Python values, outcomes of a call, and the remote service's responses   *)
(***************************************************************************)
Item(m) == [t |-> "item", v |-> m]
List(s) == [t |-> "list", v |-> s]
Body(b) == [t |-> "body", v |-> b]
Result(r) == [t |-> "result", v |-> r]
Cause(k, status) == [t |-> "cause", v |-> [kind |-> k, status |-> status]]
MissingKey(k) == [t |-> "key", v |-> k]

Return(v) == [kind |-> "return", exc |-> "", val |-> v]
Raise(e, v) == [kind |-> "raise", exc |-> e, val |-> v]
NoOutcome == [kind |-> "none", exc |-> "", val |-> None]

\* JSON scalars are written as their JSON text; "<absent>" marks a key that
\* the decoded mapping does not have.
Absent == "<absent>"
Falsy == {"null", "false", "0", ""}
Truthy(v) == v \notin Falsy

ErrorCodes == {Absent, "null", "0", "ERR-CONDUIT-CORE"}
Statuses == {200, 302, 404, 503}

\* a remote entity: an untyped mapping; the columns' fields are the only ones
\* the client reads
Entity(id, proxy, hidden) ==
    [id |-> id, fields |-> [proxyPHID |-> proxy, isHidden |-> hidden]]

\* the responses the remote service may give when the entities it can return
\* are E, at most n per result set
Responses(statuses, codes, E, n) ==
    {[kind |-> k, status |-> 0, body |-> [error_code |-> "null", result |-> [data |-> <<>>]]] :
        k \in {"timeout", "connection"}}
    \cup
    {[kind |-> "http", status |-> s, body |-> [error_code |-> c, result |-> [data |-> d]]] :
        s \in statuses, c \in codes, d \in StringsUpTo(E, n)}

\* Response.raise_for_status(): HTTPError for 4xx and 5xx
RaisesForStatus(status) == 400 <= status /\ status < 600

(***************************************************************************)
(* _make_request, lines 50-64: what the call ends in for the response r    *)
(***************************************************************************)
\* a helper that looks at the body before the status
make_request_BodyFirst(r) ==
    IF r.kind # "http" THEN Raise("Exception", Cause(r.kind, 0))
    ELSE IF r.body.error_code = Absent THEN Raise("KeyError", MissingKey("error_code"))
    ELSE IF Truthy(r.body.error_code) THEN Raise("Exception", Body(r.body))
    ELSE IF RaisesForStatus(r.status) THEN Raise("Exception", Cause("HTTPError", r.status))
    ELSE Return(Body(r.body))

_make_request(r) ==
    IF r.kind # "http" THEN Raise("Exception", Cause(r.kind, 0))
    ELSE IF RaisesForStatus(r.status) THEN Raise("Exception", Cause("HTTPError", r.status))
    ELSE IF r.body.error_code = Absent THEN Raise("KeyError", MissingKey("error_code"))
    ELSE IF Truthy(r.body.error_code) THEN Raise("Exception", Body(r.body))
    ELSE Return(Body(r.body))

\* the form data of a request, lines 44-48: the call's parameters over the
\* token and the output format
RequestData(params) == params @@ ("api.token" :> token @@ "output" :> "json")

(***************************************************************************)
(* _first, lines 29-31                                                     *)
(***************************************************************************)
\* a helper that takes the last element
first_Last(result_set) ==
    IF result_set # <<>> THEN Item(result_set[Len(result_set)]) ELSE None

_first(result_set) ==
    IF result_set # <<>> THEN Item(result_set[1]) ELSE None

(***************************************************************************)
(* create_or_edit_task, lines 70-79: the encoding of the transactions      *)
(***************************************************************************)
NoTaskId == [given |-> FALSE, id |-> 0]
TaskId(n) == [given |-> TRUE, id |-> n]

Scalar(v) == [t |-> "str", v |-> v]

TxType(i) == "transactions[" \o ToString(i) \o "][type]"
TxValue(i) == "transactions[" \o ToString(i) \o "][value]"
TxValueAt(i, j) == "transactions[" \o ToString(i) \o "][value][" \o ToString(j) \o "]"

\* an enumeration that stops one element early
RECURSIVE ListParams_SkipLast(_, _, _)
ListParams_SkipLast(i, value, j) ==
    IF j >= Len(value) - 1 THEN <<>>
    ELSE (TxValueAt(i, j) :> value[j + 1]) @@ ListParams_SkipLast(i, value, j + 1)

\* lines 74-75: the elements of the list value of transaction i, from index j on
RECURSIVE ListParams(_, _, _)
ListParams(i, value, j) ==
    IF j >= Len(value) THEN <<>>
    ELSE (TxValueAt(i, j) :> value[j + 1]) @@ ListParams(i, value, j + 1)

\* lines 71-77: the entries of the mapping from index i on
RECURSIVE Transactions(_, _)
Transactions(params, i) ==
    IF i >= Len(params) THEN <<>>
    ELSE LET key == params[i + 1].key
             value == params[i + 1].value
         IN  (TxType(i) :> key)
             @@ (IF value.t = "list" THEN ListParams(i, value.v, 0)
                                     ELSE TxValue(i) :> value.v)
             @@ Transactions(params, i + 1)

\* lines 70-79; "if task_id:" is Python truthiness
raw_params(params, task_id) ==
    IF task_id.given /\ task_id.id # 0
        THEN Transactions(params, 0) @@ ("objectIdentifier" :> task_id.id)
        ELSE Transactions(params, 0)

(***************************************************************************)
(* get_project_current_milestone, lines 161-164                            *)
(***************************************************************************)
IsMilestone(column) ==
    Truthy(column.fields.proxyPHID) /\ ~column.fields.isHidden

\* a scan from the end of the listing
RECURSIVE MilestoneFrom_Last(_, _)
MilestoneFrom_Last(columns, i) ==
    IF i < 1 THEN None
    ELSE IF IsMilestone(columns[i]) THEN Item(columns[i])
    ELSE MilestoneFrom_Last(columns, i - 1)

RECURSIVE MilestoneFrom(_, _)
MilestoneFrom(columns, i) ==
    IF i > Len(columns) THEN None
    ELSE IF IsMilestone(columns[i]) THEN Item(columns[i])
    ELSE MilestoneFrom(columns, i + 1)

CurrentMilestone_Last(columns) == MilestoneFrom_Last(columns, Len(columns))

CurrentMilestone(columns) == MilestoneFrom(columns, 1)

(***************************************************************************)
(* What each public operation makes of the outcome o of its request        *)
(***************************************************************************)
Data(o) == o.val.v.result.data

Finish(operation, o) ==
    IF o.kind # "return" THEN o
    ELSE CASE operation \in {"create_or_edit_task", "move_task_to_column",
                             "mark_task_as_resolved", "assign_task_to_user"} -> o
           [] operation = "show_task" ->
                  IF Data(o) = <<>> THEN Raise("IndexError", None)
                                    ELSE Return(Item(Data(o)[1]))
           [] operation \in {"find_subtasks", "show_projects", "list_project_columns"} ->
                  Return(List(Data(o)))
           [] operation \in {"find_parent_task", "show_user", "find_user_by_username"} ->
                  Return(_first(Data(o)))
           [] operation = "current_user" -> Return(Result(o.val.v.result))
           [] operation = "get_project_current_milestone" ->
                  Return(CurrentMilestone(Data(o)))

(***************************************************************************)
(* The client at work: threads calling its public operations               *)
(***************************************************************************)
NotCached == [t |-> "notcached"]
Off == [t |-> "off"]
NoRequest == [path |-> "", data |-> <<>>]
PHIDs == {"PHID-USER-a", "PHID-USER-b"}

clientVars == <<env, ctor, base_url, token, timeout>>

\* a constructed client used by the threads T; the observations are taken
\* when they are switched on
InitClient(T, observeResp, observeHist) ==
    /\ env = [PHABRICATOR_URL |-> EnvValue(<<"h", "/">>),
              PHABRICATOR_TOKEN |-> EnvValue(<<"k">>)]
    /\ ctor = "constructed"
    /\ base_url = rstrip(env.PHABRICATOR_URL.val)
    /\ token = env.PHABRICATOR_TOKEN.val
    /\ timeout = DefaultTimeout
    /\ cache = [p \in PHIDs |-> NotCached]
    /\ pc = [t \in T |-> "idle"]
    /\ op = [t \in T |-> ""]
    /\ arg = [t \in T |-> None]
    /\ req = [t \in T |-> NoRequest]
    /\ ret = [t \in T |-> NoOutcome]
    /\ nreq = [t \in T |-> 0]
    /\ missed = [t \in T |-> FALSE]
    /\ overlap = [t \in T |-> FALSE]
    /\ resp = IF observeResp THEN None ELSE Off
    /\ hist = IF observeHist
                THEN [p \in PHIDs |-> [out |-> NoOutcome, n |-> 0, tick |-> 0]]
                ELSE <<>>

\* the observation of a completed show_user(p): its outcome o and the number
\* n of requests it made
HistAfter(h, p, o, n) ==
    IF DOMAIN h = {} THEN h
    ELSE [h EXCEPT ![p] = [out |-> o, n |-> n, tick |-> 1 - @.tick]]

Ready(t) == ctor = "constructed" /\ pc[t] = "idle"

\* lines 40-56: the POST of _make_request, on behalf of a public operation
Post(t, operation, a, path, params) ==
    /\ Ready(t)
    /\ pc' = [pc EXCEPT ![t] = "waiting"]
    /\ op' = [op EXCEPT ![t] = operation]
    /\ arg' = [arg EXCEPT ![t] = a]
    /\ req' = [req EXCEPT ![t] = [path |-> path, data |-> RequestData(params)]]
    /\ ret' = [ret EXCEPT ![t] = NoOutcome]
    /\ nreq' = [nreq EXCEPT ![t] = 1]
    /\ missed' = [missed EXCEPT ![t] = FALSE]
    /\ overlap' = [overlap EXCEPT ![t] = FALSE]
    /\ UNCHANGED <<clientVars, cache, resp, hist>>

\* the arguments of a create_or_edit_task call
Edit(params, task_id) == [t |-> "edit", v |-> [params |-> params, task_id |-> task_id]]

\* lines 66-80
create_or_edit_task(t, params, task_id) ==
    Post(t, "create_or_edit_task", Edit(params, task_id),
         "maniphest.edit", raw_params(params, task_id))

\* lines 82-92
show_task(t, task_id) ==
    Post(t, "show_task", None, "maniphest.search",
         "constraints[ids][0]" :> task_id
         @@ "attachments[subscribers]" :> "true"
         @@ "attachments[projects]" :> "true"
         @@ "attachments[columns]" :> "true")

\* lines 94-98
find_subtasks(t, parent_id) ==
    Post(t, "find_subtasks", None, "maniphest.search",
         "constraints[parentIDs][0]" :> parent_id)

\* lines 100-106
find_parent_task(t, subtask_id) ==
    Post(t, "find_parent_task", None, "maniphest.search",
         "constraints[subtaskIDs][0]" :> subtask_id)

\* lines 108-110
move_task_to_column(t, task_id, column_phid) ==
    Post(t, "move_task_to_column",
         Edit(<<[key |-> "column", value |-> Scalar(column_phid)]>>, TaskId(task_id)),
         "maniphest.edit",
         raw_params(<<[key |-> "column", value |-> Scalar(column_phid)]>>, TaskId(task_id)))

\* lines 112-114
mark_task_as_resolved(t, task_id) ==
    Post(t, "mark_task_as_resolved",
         Edit(<<[key |-> "status", value |-> Scalar("resolved")]>>, TaskId(task_id)),
         "maniphest.edit",
         raw_params(<<[key |-> "status", value |-> Scalar("resolved")]>>, TaskId(task_id)))

\* lines 142-144
assign_task_to_user(t, task_id, user_phid) ==
    Post(t, "assign_task_to_user",
         Edit(<<[key |-> "owner", value |-> Scalar(user_phid)]>>, TaskId(task_id)),
         "maniphest.edit",
         raw_params(<<[key |-> "owner", value |-> Scalar(user_phid)]>>, TaskId(task_id)))

InFlight(p) ==
    {u \in DOMAIN pc : /\ pc[u] \in {"waiting", "storing"}
                       /\ op[u] = "show_user"
                       /\ arg[u] = [t |-> "phid", v |-> p]}

\* thread t starts a remote call for phid: it and the calls for phid that are
\* in flight overlap
Overlapped(t, phid) ==
    [u \in DOMAIN overlap |->
        IF u = t THEN InFlight(phid) # {}
        ELSE IF u \in InFlight(phid) THEN TRUE ELSE overlap[u]]

\* a show_user that asks the remote service whatever the cache holds
show_user_NoCache(t, phid) ==
    /\ Ready(t)
    /\ op' = [op EXCEPT ![t] = "show_user"]
    /\ arg' = [arg EXCEPT ![t] = [t |-> "phid", v |-> phid]]
    /\ overlap' = Overlapped(t, phid)
    /\ pc' = [pc EXCEPT ![t] = "waiting"]
    /\ req' = [req EXCEPT ![t] =
                  [path |-> "user.search",
                   data |-> RequestData("constraints[phids][0]" :> phid)]]
    /\ ret' = [ret EXCEPT ![t] = NoOutcome]
    /\ nreq' = [nreq EXCEPT ![t] = 1]
    /\ missed' = [missed EXCEPT ![t] = TRUE]
    /\ UNCHANGED <<clientVars, cache, resp, hist>>

\* lines 116-122: the lookup in the dictionary of functools.cache, then, on a
\* miss, the call of the wrapped function up to its POST
show_user(t, phid) ==
    /\ Ready(t)
    /\ op' = [op EXCEPT ![t] = "show_user"]
    /\ arg' = [arg EXCEPT ![t] = [t |-> "phid", v |-> phid]]
    /\ IF cache[phid] # NotCached
         THEN /\ pc' = [pc EXCEPT ![t] = "done"]
              /\ req' = [req EXCEPT ![t] = NoRequest]
              /\ ret' = [ret EXCEPT ![t] = Return(cache[phid])]
              /\ nreq' = [nreq EXCEPT ![t] = 0]
              /\ missed' = [missed EXCEPT ![t] = FALSE]
              /\ overlap' = [overlap EXCEPT ![t] = InFlight(phid) # {}]
              /\ hist' = HistAfter(hist, phid, Return(cache[phid]), 0)
         ELSE /\ pc' = [pc EXCEPT ![t] = "waiting"]
              /\ req' = [req EXCEPT ![t] =
                            [path |-> "user.search",
                             data |-> RequestData("constraints[phids][0]" :> phid)]]
              /\ ret' = [ret EXCEPT ![t] = NoOutcome]
              /\ nreq' = [nreq EXCEPT ![t] = 1]
              /\ missed' = [missed EXCEPT ![t] = TRUE]
              /\ overlap' = Overlapped(t, phid)
              /\ hist' = hist
    /\ UNCHANGED <<clientVars, cache, resp>>

\* lines 124-129: the constraints of show_projects, from index i on
RECURSIVE PhidConstraints(_, _)
PhidConstraints(phids, i) ==
    IF i >= Len(phids) THEN <<>>
    ELSE ("constraints[phids][" \o ToString(i) \o "]" :> phids[i + 1])
         @@ PhidConstraints(phids, i + 1)

show_projects(t, phids) ==
    Post(t, "show_projects", None, "project.search", PhidConstraints(phids, 0))

\* lines 131-133
current_user(t) == Post(t, "current_user", None, "user.whoami", <<>>)

\* lines 135-140
find_user_by_username(t, username) ==
    Post(t, "find_user_by_username", None, "user.search",
         "constraints[usernames][0]" :> username)

\* lines 146-153
list_project_columns(t, project_phid) ==
    Post(t, "list_project_columns", None, "project.column.search",
         "constraints[projects][0]" :> project_phid)

\* lines 155-161: the call of list_project_columns
get_project_current_milestone(t, project_phid) ==
    Post(t, "get_project_current_milestone", None, "project.column.search",
         "constraints[projects][0]" :> project_phid)

Observed(r) == IF resp = Off THEN Off ELSE [t |-> "response", v |-> r]

\* a client that posts the request again when it failed
Respond_Retry(t, r) ==
    /\ pc[t] = "waiting"
    /\ LET o == Finish(op[t], _make_request(r))
       IN  IF o.kind = "raise" /\ nreq[t] < 2
             THEN /\ nreq' = [nreq EXCEPT ![t] = @ + 1]
                  /\ UNCHANGED <<pc, ret, hist>>
             ELSE /\ nreq' = nreq
                  /\ IF op[t] = "show_user" /\ o.kind = "return"
                       THEN /\ pc' = [pc EXCEPT ![t] = "storing"]
                            /\ hist' = hist
                       ELSE /\ pc' = [pc EXCEPT ![t] = "done"]
                            /\ hist' = IF op[t] = "show_user"
                                         THEN HistAfter(hist, arg[t].v, o, nreq[t])
                                         ELSE hist
                  /\ ret' = [ret EXCEPT ![t] = o]
    /\ resp' = Observed(r)
    /\ UNCHANGED <<clientVars, cache, op, arg, req, missed, overlap>>

\* lines 57-64 and the rest of the operation: the response r arrives, the
\* request ends and the operation makes its result of it.  A show_user that
\* returns has its result stored by functools.cache next; one that raises
\* leaves through the wrapper, which stores nothing.
Respond(t, r) ==
    /\ pc[t] = "waiting"
    /\ LET o == Finish(op[t], _make_request(r))
       IN  /\ IF op[t] = "show_user" /\ o.kind = "return"
                THEN /\ pc' = [pc EXCEPT ![t] = "storing"]
                     /\ hist' = hist
                ELSE /\ pc' = [pc EXCEPT ![t] = "done"]
                     /\ hist' = IF op[t] = "show_user"
                                  THEN HistAfter(hist, arg[t].v, o, nreq[t])
                                  ELSE hist
           /\ ret' = [ret EXCEPT ![t] = o]
    /\ resp' = Observed(r)
    /\ UNCHANGED <<clientVars, cache, op, arg, req, nreq, missed, overlap>>

\* a wrapper that hands the value to the caller without storing it
Store_Skip(t) ==
    /\ pc[t] = "storing"
    /\ cache' = cache
    /\ pc' = [pc EXCEPT ![t] = "done"]
    /\ hist' = HistAfter(hist, arg[t].v, ret[t], nreq[t])
    /\ UNCHANGED <<clientVars, op, arg, req, ret, nreq, missed, overlap, resp>>

\* line 116: functools.cache stores the value show_user returned under its
\* argument and hands it to the caller
Store(t) ==
    /\ pc[t] = "storing"
    /\ cache' = [cache EXCEPT ![arg[t].v] = ret[t].val]
    /\ pc' = [pc EXCEPT ![t] = "done"]
    /\ hist' = HistAfter(hist, arg[t].v, ret[t], nreq[t])
    /\ UNCHANGED <<clientVars, op, arg, req, ret, nreq, missed, overlap, resp>>

\* the caller has the result (or the exception) and is ready for its next call
Resume(t) ==
    /\ pc[t] = "done"
    /\ pc' = [pc EXCEPT ![t] = "idle"]
    /\ op' = [op EXCEPT ![t] = ""]
    /\ arg' = [arg EXCEPT ![t] = None]
    /\ req' = [req EXCEPT ![t] = NoRequest]
    /\ ret' = [ret EXCEPT ![t] = NoOutcome]
    /\ nreq' = [nreq EXCEPT ![t] = 0]
    /\ missed' = [missed EXCEPT ![t] = FALSE]
    /\ overlap' = [overlap EXCEPT ![t] = FALSE]
    /\ resp' = IF resp = Off THEN Off ELSE None
    /\ UNCHANGED <<clientVars, cache, hist>>

(***************************************************************************)
(* Spec: one thread, every public operation, every kind of response        *)
(***************************************************************************)
MaxData == 2        \* longest result set the remote service returns

Items == {Entity("a", "null", FALSE), Entity("b", "PHID-PROJ-b", FALSE)}
Main == "main"

Init == InitClient({Main}, TRUE, FALSE)

StatusResolved == <<[key |-> "status", value |-> Scalar("resolved")]>>

Next ==
    \/ \E task_id \in {NoTaskId, TaskId(42)} : create_or_edit_task(Main, StatusResolved, task_id)
    \/ show_task(Main, 42)
    \/ find_subtasks(Main, 42)
    \/ find_parent_task(Main, 42)
    \/ move_task_to_column(Main, 42, "PHID-PCOL-a")
    \/ mark_task_as_resolved(Main, 42)
    \/ assign_task_to_user(Main, 42, "PHID-USER-a")
    \/ \E phid \in PHIDs : show_user(Main, phid)
    \/ show_projects(Main, <<"PHID-PROJ-a", "PHID-PROJ-b">>)
    \/ current_user(Main)
    \/ find_user_by_username(Main, "alice")
    \/ list_project_columns(Main, "PHID-PROJ-a")
    \/ get_project_current_milestone(Main, "PHID-PROJ-a")
    \/ \E r \in Responses(Statuses, ErrorCodes, Items, MaxData) : Respond(Main, r)
    \/ Store(Main)
    \/ Resume(Main)

Spec == Init /\ [][Next]_vars

(***************************************************************************)
(* Claims about the request helper, the lookups and the request count      *)
(***************************************************************************)
\* the invocation of thread t has ended and resp is the response to its request
Answered(t) ==
    /\ pc[t] = "done"
    /\ nreq[t] = 1
    /\ resp # Off /\ resp # None

HttpAnswered(t) == Answered(t) /\ resp.v.kind = "http"

ErrorCodeSet(r) == r.body.error_code # Absent /\ r.body.error_code \notin Falsy

\* C2 as stated: a response whose JSON body has a truthy error-code field ends
\* the call in an API-level failure whose payload is that decoded body, for
\* every HTTP status of the response.
C2_Original ==
    HttpAnswered(Main) /\ ErrorCodeSet(resp.v) =>
        ret[Main] = Raise("Exception", Body(resp.v.body))

\* C2 amended: a response whose JSON body has a truthy error-code field ends
\* the call in a failure for every HTTP status; the failure is the API-level
\* one carrying the decoded body when the status is not a 4xx or 5xx one, and
\* for a 4xx or 5xx status it is the HTTP failure carrying the status error,
\* the body not being looked at.
C2_ApiFailure ==
    HttpAnswered(Main) /\ ErrorCodeSet(resp.v) =>
        /\ ret[Main].kind = "raise"
        /\ ret[Main].exc = "Exception"
        /\ (resp.v.status < 400 \/ resp.v.status >= 600 =>
               ret[Main].val = Body(resp.v.body))
        /\ (resp.v.status >= 400 /\ resp.v.status < 600 =>
               ret[Main].val = Cause("HTTPError", resp.v.status))

\* a 200 whose body reports an error ended in the API-level failure
C2_Witness ==
    /\ HttpAnswered(Main)
    /\ ErrorCodeSet(resp.v)
    /\ resp.v.status = 200
    /\ ret[Main] = Raise("Exception", Body(resp.v.body))

EditOperations ==
    {"create_or_edit_task", "move_task_to_column", "mark_task_as_resolved",
     "assign_task_to_user"}

RequestFailed(t) == ret[t].kind = "raise" /\ ret[t].exc \in {"Exception", "KeyError"}

\* C3: a response with a successful HTTP status is accepted, and its decoded
\* body returned to the caller, whenever the body's error-code field is falsy
\* or absent; the call fails only when the field is present and truthy or the
\* status is not successful.
C3_AcceptsFalsyOrAbsent ==
    HttpAnswered(Main) =>
        /\ (/\ resp.v.status >= 200 /\ resp.v.status < 300
            /\ ~ErrorCodeSet(resp.v)
            => /\ ~RequestFailed(Main)
               /\ (op[Main] \in EditOperations => ret[Main] = Return(Body(resp.v.body))))
        /\ (RequestFailed(Main) =>
               ErrorCodeSet(resp.v) \/ resp.v.status < 200 \/ resp.v.status >= 300)

\* C8: when the remote call succeeds, find_parent_task, find_user_by_username
\* and show_user return None without raising if the result set is empty and
\* the element at index 0 of the result set otherwise.
C8_FirstOrNone ==
    /\ HttpAnswered(Main)
    /\ op[Main] \in {"find_parent_task", "find_user_by_username", "show_user"}
    /\ resp.v.status < 400
    /\ resp.v.body.error_code \in Falsy
    => LET data == resp.v.body.result.data
       IN  /\ ret[Main].kind = "return"
           /\ (data = <<>> => ret[Main].val = None)
           /\ (data # <<>> => ret[Main].val = Item(data[1]))

\* find_parent_task got two different tasks and returned the one at index 0
C8_Witness ==
    /\ HttpAnswered(Main)
    /\ op[Main] = "find_parent_task"
    /\ Len(resp.v.body.result.data) = 2
    /\ resp.v.body.result.data[1] # resp.v.body.result.data[2]
    /\ ret[Main] = Return(Item(resp.v.body.result.data[1]))

\* C9 as stated: each invocation of a public operation issues one HTTP request.
C9_Original ==
    \A t \in DOMAIN pc : pc[t] = "done" => nreq[t] = 1

\* C9 amended: each invocation of a public operation issues at most one HTTP
\* request: exactly one, except a show_user that finds its argument in the
\* cache, which issues none and returns the cached value; no operation
\* retries: an invocation whose request failed has ended with that one request.
C9_AtMostOneRequest ==
    \A t \in DOMAIN pc :
        /\ nreq[t] <= 1
        /\ (pc[t] \in {"waiting", "storing"} => nreq[t] = 1)
        /\ (pc[t] = "done" /\ ret[t].kind = "raise" => nreq[t] = 1)
        /\ (pc[t] = "done" /\ nreq[t] = 0 =>
               /\ op[t] = "show_user"
               /\ cache[arg[t].v] # NotCached
               /\ ret[t] = Return(cache[arg[t].v]))
        /\ (pc[t] = "done" /\ op[t] # "show_user" => nreq[t] = 1)

\* an invocation whose request timed out ended after that one request
C9_Witness ==
    /\ Answered(Main)
    /\ resp.v.kind = "timeout"
    /\ ret[Main] = Raise("Exception", Cause("timeout", 0))

(***************************************************************************)
(* SpecCache: one thread, with the show_user calls observed per phid       *)
(***************************************************************************)
MaxUsers == 1       \* longest result set of user.search in SpecCache and SpecThreads

InitCache == InitClient({Main}, TRUE, TRUE)

CacheResponses == Responses({200, 503}, ErrorCodes, Items, MaxUsers)

NextCache ==
    \/ \E task_id \in {NoTaskId, TaskId(42)} : create_or_edit_task(Main, StatusResolved, task_id)
    \/ show_task(Main, 42)
    \/ find_subtasks(Main, 42)
    \/ find_parent_task(Main, 42)
    \/ move_task_to_column(Main, 42, "PHID-PCOL-a")
    \/ mark_task_as_resolved(Main, 42)
    \/ assign_task_to_user(Main, 42, "PHID-USER-a")
    \/ \E phid \in PHIDs : show_user(Main, phid)
    \/ show_projects(Main, <<"PHID-PROJ-a", "PHID-PROJ-b">>)
    \/ current_user(Main)
    \/ find_user_by_username(Main, "alice")
    \/ list_project_columns(Main, "PHID-PROJ-a")
    \/ get_project_current_milestone(Main, "PHID-PROJ-a")
    \/ \E r \in CacheResponses : Respond(Main, r)
    \/ Store(Main)
    \/ Resume(Main)

SpecCache == InitCache /\ [][NextCache]_vars

\* a show_user(p) call has just ended
Completes(p) == hist'[p].tick # hist[p].tick

\* C1 as stated: of two show_user(p) calls, at most one network request for p
\* is performed across the two and both return the identical result, whatever
\* the first call's outcome was (a user record, none, or a failure) and
\* whatever ran in between.
C1_Original ==
    [][\A p \in PHIDs :
          Completes(p) /\ hist[p].out.kind # "none" =>
              /\ hist'[p].out = hist[p].out
              /\ hist[p].n + hist'[p].n <= 1]_vars

\* C1 amended: once a show_user(p) call has returned (a user record or none),
\* every later show_user(p) performs no network request and returns the
\* identical result, whatever operations run in between, and the cached value
\* is never replaced; a call that ends in a failure stores nothing, so the
\* next show_user(p) performs a network request of its own.
C1_Memoized ==
    [][\A p \in PHIDs :
          /\ (Completes(p) =>
                 IF hist[p].out.kind = "return"
                   THEN hist'[p].n = 0 /\ hist'[p].out = hist[p].out
                   ELSE hist'[p].n = 1)
          /\ (Completes(p) /\ hist'[p].out.kind = "return" =>
                 cache'[p] = hist'[p].out.val)
          /\ (Completes(p) /\ hist'[p].out.kind = "raise" => cache'[p] = NotCached)
          /\ (cache[p] # NotCached => cache'[p] = cache[p])]_vars

\* a show_user was answered from the cache, and another operation ran since
C1_Witness ==
    \E p \in PHIDs :
        /\ hist[p].out.kind = "return"
        /\ hist[p].n = 0
        /\ pc[Main] = "done"
        /\ op[Main] = "show_task"

(***************************************************************************)
(* SpecThreads: several threads calling show_user on one client            *)
(***************************************************************************)
NThreads == 2       \* threads sharing the client

Threads == 1..NThreads

InitThreads == InitClient(Threads, FALSE, FALSE)

RaceResponses ==
    Responses({200, 503}, {"null", "ERR-CONDUIT-CORE"}, {Entity("a", "null", FALSE)}, MaxUsers)

NextThreads ==
    \/ \E t \in Threads, phid \in PHIDs : show_user(t, phid)
    \/ \E t \in Threads, r \in RaceResponses : Respond(t, r)
    \/ \E t \in Threads : Store(t)
    \/ \E t \in Threads : Resume(t)

SpecThreads == InitThreads /\ [][NextThreads]_vars

\* the threads whose show_user(p) has ended
Ended(p) ==
    {t \in DOMAIN pc : /\ pc[t] = "done"
                       /\ op[t] = "show_user"
                       /\ arg[t] = [t |-> "phid", v |-> p]}

\* those of them that missed the cache while another call for p was in flight
Racers(p) == {t \in Ended(p) : missed[t] /\ overlap[t]}

\* those that were called when no call for p was in flight and found p cached
Later(p) == {t \in Ended(p) : ~missed[t] /\ ~overlap[t]}

\* C10 as stated: threads that concurrently make the first show_user call for
\* one identifier may each perform a remote call, but once all of them have
\* finished the cache holds one value for the identifier, every racing caller
\* returned that value, and every later call returns it without a request.
C10_Original ==
    \A p \in PHIDs :
        InFlight(p) = {} /\ Cardinality(Racers(p)) >= 2 =>
            /\ cache[p] # NotCached
            /\ \A t \in Racers(p) : ret[t] = Return(cache[p])
            /\ \A t \in Later(p) : nreq[t] = 0 /\ ret[t] = Return(cache[p])

\* C10 amended: threads that concurrently make the first show_user call for
\* one identifier each perform exactly one remote call, and the results they
\* return may differ from one another; once all of them have finished, the
\* cache holds a value for the identifier if at least one of them returned
\* (and none if all of them failed), and every later call that finds the
\* identifier cached returns the cached value without a network request.
C10_Converges ==
    \A p \in PHIDs :
        /\ \A t \in Racers(p) : nreq[t] = 1
        /\ (InFlight(p) = {} =>
               /\ ((\E t \in Racers(p) : ret[t].kind = "return") => cache[p] # NotCached)
               /\ \A t \in Later(p) : nreq[t] = 0 /\ ret[t] = Return(cache[p]))

\* two racing callers have ended with two different results, and a later one
\* with the cached result
C10_Witness ==
    \E p \in PHIDs :
        /\ InFlight(p) = {}
        /\ \E t, u \in Racers(p) :
              /\ ret[t].kind = "return"
              /\ ret[u].kind = "return"
              /\ ret[t] # ret[u]

(***************************************************************************)
(* SpecEdit: the requests of create_or_edit_task and of its callers        *)
(***************************************************************************)
MaxParams == 2      \* most entries of a parameter mapping
MaxList == 2        \* longest list value of a transaction

EditKeys == {"title", "subscribers"}
EditValues == {Scalar("x")} \cup {List(s) : s \in StringsUpTo({"PHID-A", "PHID-B"}, MaxList)}
EditTaskIds == {0, 1, 42}

\* the parameter mappings: their entries in iteration order, the keys distinct
EditParams ==
    {ps \in UNION {[1..n -> [key : EditKeys, value : EditValues]] : n \in 0..MaxParams} :
        \A i, j \in 1..Len(ps) : i # j => ps[i].key # ps[j].key}

EditResponses == Responses({200}, {"null", "ERR-CONDUIT-CORE"}, Items, 0)

InitEdit == InitClient({Main}, TRUE, FALSE)

NextEdit ==
    \/ \E params \in EditParams, task_id \in {NoTaskId} \cup {TaskId(n) : n \in EditTaskIds} :
          create_or_edit_task(Main, params, task_id)
    \/ \E task_id \in EditTaskIds : move_task_to_column(Main, task_id, "PHID-PCOL-a")
    \/ \E task_id \in EditTaskIds : mark_task_as_resolved(Main, task_id)
    \/ \E task_id \in EditTaskIds : assign_task_to_user(Main, task_id, "PHID-USER-a")
    \/ \E r \in EditResponses : Respond(Main, r)
    \/ Resume(Main)

SpecEdit == InitEdit /\ [][NextEdit]_vars

\* thread Main has posted the request of an edit
Editing ==
    /\ pc[Main] \in {"waiting", "done"}
    /\ op[Main] \in EditOperations

SentKeys == DOMAIN req[Main].data

\* C5: create_or_edit_task puts objectIdentifier=t in the request body for
\* every call that is given a task id t, and no objectIdentifier exactly when
\* no task id is given; move_task_to_column, mark_task_as_resolved and
\* assign_task_to_user always send the task id they were given.
C5_ObjectIdentifier ==
    Editing =>
        LET task_id == arg[Main].v.task_id
        IN  /\ (task_id.given =>
                   /\ "objectIdentifier" \in SentKeys
                   /\ req[Main].data["objectIdentifier"] = task_id.id)
            /\ (~task_id.given <=> "objectIdentifier" \notin SentKeys)

\* the keys that carry the value of transaction i
ValueKeys(i) ==
    {k \in SentKeys : k = TxValue(i) \/ \E j \in 0..(MaxList + 1) : k = TxValueAt(i, j)}

\* the encoding of the entries, their types and their values, key by key
EncodedExactly ==
    LET params == arg[Main].v.params
        data == req[Main].data
    IN  /\ \A i \in 0..(Len(params) - 1) :
              LET value == params[i + 1].value
              IN  /\ TxType(i) \in SentKeys
                  /\ data[TxType(i)] = params[i + 1].key
                  /\ IF value.t = "list"
                       THEN /\ ValueKeys(i) = {TxValueAt(i, j) : j \in 0..(Len(value.v) - 1)}
                            /\ \A j \in 0..(Len(value.v) - 1) :
                                  data[TxValueAt(i, j)] = value.v[j + 1]
                       ELSE /\ ValueKeys(i) = {TxValue(i)}
                            /\ data[TxValue(i)] = value.v
        /\ \A i \in Len(params)..(MaxParams + 1) :
              TxType(i) \notin SentKeys /\ ValueKeys(i) = {}

\* C6 as stated: the i-th entry is emitted as transactions[i][type] with its
\* key and, for a scalar, exactly transactions[i][value], for a sequence of
\* length m exactly transactions[i][value][j] for j in 0..m-1 in order and no
\* plain transactions[i][value]; every transaction therefore carries a type
\* and its full value, including for an empty sequence.
C6_Original ==
    Editing =>
        /\ EncodedExactly
        /\ \A i \in 0..(Len(arg[Main].v.params) - 1) :
              TxType(i) \in SentKeys /\ ValueKeys(i) # {}

\* C6 amended: the i-th entry is emitted as transactions[i][type] with its
\* key and, for a scalar, exactly transactions[i][value], for a list of
\* length m exactly transactions[i][value][j] for j in 0..m-1 in order and no
\* plain transactions[i][value]; a transaction whose value is an empty list
\* therefore carries its type and no value key at all.
C6_Encoding ==
    Editing =>
        /\ EncodedExactly
        /\ \A i \in 0..(Len(arg[Main].v.params) - 1) :
              ValueKeys(i) = {} <=> arg[Main].v.params[i + 1].value = List(<<>>)

\* a mapping of a scalar and a list of two elements was sent
C6_Witness ==
    /\ Editing
    /\ op[Main] = "create_or_edit_task"
    /\ Len(arg[Main].v.params) = 2
    /\ arg[Main].v.params[1].value = Scalar("x")
    /\ arg[Main].v.params[2].value = List(<<"PHID-A", "PHID-B">>)
    /\ req[Main].data[TxValueAt(1, 1)] = "PHID-B"

(***************************************************************************)
(* SpecMilestone: the scan of a project's columns                          *)
(***************************************************************************)
MaxColumns == 3     \* most columns of a project

Columns ==
    {Entity("c", proxy, hidden) :
        proxy \in {"null", "PHID-PROJ-a", "PHID-PROJ-b"}, hidden \in BOOLEAN}

MilestoneResponses == Responses({200, 404}, {"null", "ERR-CONDUIT-CORE"}, Columns, MaxColumns)

InitMilestone == InitClient({Main}, TRUE, FALSE)

NextMilestone ==
    \/ list_project_columns(Main, "PHID-PROJ-a")
    \/ get_project_current_milestone(Main, "PHID-PROJ-a")
    \/ \E r \in MilestoneResponses : Respond(Main, r)
    \/ Resume(Main)

SpecMilestone == InitMilestone /\ [][NextMilestone]_vars

\* C7: get_project_current_milestone returns the column of lowest index in
\* the listing that has a truthy proxyPHID and a falsy isHidden, and None
\* exactly when no column of the listing satisfies both; the columns before
\* the returned one all fail one of the two conditions.
C7_FirstMilestone ==
    /\ HttpAnswered(Main)
    /\ op[Main] = "get_project_current_milestone"
    /\ resp.v.status < 400
    /\ resp.v.body.error_code \in Falsy
    => LET columns == resp.v.body.result.data
           Qualifies(i) == /\ columns[i].fields.proxyPHID \notin Falsy
                           /\ columns[i].fields.isHidden = FALSE
       IN  /\ ret[Main].kind = "return"
           /\ (ret[Main].val = None <=> \A i \in 1..Len(columns) : ~Qualifies(i))
           /\ (ret[Main].val # None =>
                  \E i \in 1..Len(columns) :
                      /\ Qualifies(i)
                      /\ \A j \in 1..(i - 1) : ~Qualifies(j)
                      /\ ret[Main].val = Item(columns[i]))

\* a hidden proxy column and a plain column come first, then two different
\* milestone columns: the first of the two was returned
C7_Witness ==
    /\ HttpAnswered(Main)
    /\ op[Main] = "get_project_current_milestone"
    /\ Len(resp.v.body.result.data) = 3
    /\ resp.v.body.result.data[1] = Entity("c", "PHID-PROJ-a", TRUE)
    /\ resp.v.body.result.data[2] = Entity("c", "PHID-PROJ-a", FALSE)
    /\ resp.v.body.result.data[3] = Entity("c", "PHID-PROJ-b", FALSE)
    /\ ret[Main] = Return(Item(Entity("c", "PHID-PROJ-a", FALSE)))

====
